---- MODULE Spec2Model ----
(***************************************************************************)
(* A model of main.py: one CustomVideoCapture whose _reader thread         *)
(* publishes frames into a queue.Queue(maxsize=1), VideoTracks that read   *)
(* that queue from the asyncio event loop, and the WebRTCServer that       *)
(* registers one RTCPeerConnection per POST /offer in self.pcs and tears   *)
(* it down from the two state-change callbacks and from on_shutdown.       *)
(*                                                                         *)
(* Two threads exist: the _reader thread and the event-loop thread.  Every *)
(* coroutine (offer, recv, the callbacks, on_shutdown, pc.close) runs on   *)
(* the loop thread, one step between two awaits at a time.  A call that    *)
(* blocks the loop thread (queue.get on an empty queue, Thread.join)       *)
(* therefore disables every other loop action until it returns.            *)
(*                                                                         *)
(* RTCPeerConnection, cv2.VideoCapture and aiohttp are libraries: the      *)
(* model takes from them only what main.py relies on.  An awaited library  *)
(* call returns or raises, chosen nondeterministically, or never completes *)
(* (its action is simply never taken).                                     *)
(***************************************************************************)
EXTENDS Integers, Sequences, FiniteSets

\* ---------------------------------------------------------------- bounds
\* Number of requests to /offer the environment sends.
NumReq == 2
\* Number of frames the capture device delivers before it only fails or blocks.
MaxFrames == 2
\* Number of state changes the negotiation engine reports, over all connections.
MaxEvents == 2
\* Number of recv() calls the senders make, over all tracks.
MaxRecv == 2
\* Number of requests in the runs of the whole program (Spec), where the sessions,
\* the tracks and the _reader thread all interleave.
SpecReq == 1

\* ------------------------------------------------------ program constants
\* queue.Queue(maxsize=1)
QMaxSize == 1

Req == 1..NumReq
\* Identities of RTCPeerConnection objects (and of the VideoTrack added to each).
PcIds == 1..NumReq
NoPc == 0
\* The value `frame is None` tests for; device frames are numbered from 1.
None == 0

\* The values the two handlers test pc.connectionState / pc.iceConnectionState for.
Terminal == {"failed", "disconnected", "closed"}
\* The values the negotiation engine reports on either channel while the connection
\* is open; "closed" is what pc.close() leaves behind.
EngineStates == {"connected", "disconnected", "failed"}
Kinds == {"conn", "ice"}

Keys == {"sdp", "type"}
NoRequest == [method |-> "NONE", keys |-> {}]
\* The requests the environment sends: a preflight, or a POST whose JSON body holds
\* any subset of the two keys.
Requests ==
    {[method |-> "OPTIONS", keys |-> {}]}
        \cup {[method |-> "POST", keys |-> ks] : ks \in SUBSET Keys}

VARIABLES
    \* CustomVideoCapture
    q,            \* self.q: the frames in the queue, oldest first
    stopped,      \* self.stopped
    capReleased,  \* self.cap.release() has been called
    readerPc,     \* position of the _reader thread
    frame,        \* _reader's local `frame`
    capReads,     \* number of successful self.cap.read() calls so far
    published,    \* number of the frame of the last completed q.put (0: none)
    relPc,        \* position of release(), which on_shutdown calls
    \* VideoTrack, one per peer connection
    running,      \* self.running
    recvPc,       \* position of the track's recv() coroutine
    callPub,      \* `published` when the last video_capture.read() was called
    got,          \* frame the last completed video_capture.read() returned
    recvResult,   \* how the last recv() ended: "none", "frame", "raised"
    \* WebRTCServer
    pcs,          \* self.pcs
    nextPc,       \* identity of the next RTCPeerConnection() object
    offerPc,      \* position of each offer() coroutine
    offerBody,    \* the request an offer() coroutine is working on
    offerConn,    \* the local `pc` of each offer() coroutine
    offerStatus,  \* status of the web.Response returned (0: none yet)
    connState,    \* pc.connectionState
    iceState,     \* pc.iceConnectionState
    cb,           \* position of the state-change handler of each pc and kind
    closeCalls,   \* number of pc.close() calls started, per pc
    shutPc,       \* position of on_shutdown
    shutClose,    \* the pc.close() coroutines on_shutdown gathered
    \* the environment: how many more requests, engine state changes, recv() calls
    \* and device frames it will produce, or (endless) a device that streams and
    \* senders that call recv() without end
    env

capVars == <<q, stopped, capReleased, readerPc, frame, capReads, published, relPc>>
trackVars == <<running, recvPc, callPub, got, recvResult>>
offerVars == <<offerPc, offerBody, offerConn, offerStatus, nextPc>>
pcVars == <<connState, iceState, cb, closeCalls>>
shutVars == <<shutPc, shutClose>>
vars == <<capVars, trackVars, pcs, offerVars, pcVars, shutVars, env>>

\* The peer connections constructed so far.
Created == 1..(nextPc - 1)

\* The event-loop thread is free to run a ready coroutine: no recv() is blocked
\* inside queue.get(), release() is not executing on it, and on_shutdown has not
\* ended (web.run_app closes the loop once the shutdown handlers have returned or
\* raised).
LoopFree ==
    /\ \A p \in PcIds : recvPc[p] # "get"
    /\ relPc = "idle"
    /\ shutPc \notin {"done", "raised"}

\* The state after WebRTCServer() has been constructed: the capture is open and its
\* thread started, no connection exists.
Start ==
    /\ q = <<>>
    /\ stopped = FALSE
    /\ capReleased = FALSE
    /\ readerPc = "while"
    /\ frame = None
    /\ capReads = 0
    /\ published = 0
    /\ relPc = "idle"
    /\ running = [p \in PcIds |-> TRUE]
    /\ recvPc = [p \in PcIds |-> "idle"]
    /\ callPub = [p \in PcIds |-> 0]
    /\ got = [p \in PcIds |-> None]
    /\ recvResult = [p \in PcIds |-> "none"]
    /\ pcs = {}
    /\ nextPc = 1
    /\ offerPc = [r \in Req |-> "idle"]
    /\ offerBody = [r \in Req |-> NoRequest]
    /\ offerConn = [r \in Req |-> NoPc]
    /\ offerStatus = [r \in Req |-> 0]
    /\ connState = [p \in PcIds |-> "new"]
    /\ iceState = [p \in PcIds |-> "new"]
    /\ cb = [p \in PcIds |-> [k \in Kinds |-> "idle"]]
    /\ closeCalls = [p \in PcIds |-> 0]
    /\ shutPc = "idle"
    /\ shutClose = [p \in PcIds |-> "none"]

\* ------------------------------------------------ CustomVideoCapture._reader

\* A get_nowait() that removes nothing.
GetNowaitKeeps(s) == s

\* queue.Queue.get_nowait(): removes the oldest item; on an empty queue it raises
\* queue.Empty, which _reader swallows, leaving the queue as it is.
GetNowait(s) == IF s = <<>> THEN s ELSE Tail(s)

\* `while not self.stopped:`
ReaderWhile ==
    /\ readerPc = "while"
    /\ readerPc' = IF stopped THEN "exit" ELSE "capread"
    /\ UNCHANGED <<q, stopped, capReleased, frame, capReads, published, relPc>>
    /\ UNCHANGED <<trackVars, pcs, offerVars, pcVars, shutVars>>
    /\ UNCHANGED env

\* What is left of a budget n of the environment after one use.
Spend(n) == IF env.endless THEN n ELSE n - 1

\* A device whose frames arrive in the reverse of their numbering.
DeviceFrameReversed(n) == MaxFrames - n

\* The frame self.cap.read() delivers after n successful reads: frames are numbered
\* in the order the device delivers them.
DeviceFrame(n) == n + 1

\* `ret, frame = self.cap.read()` and `if not ret: self.stopped = True; break`.
\* A released handle delivers no frame; an open one delivers the next frame or fails.
\* In an endless run the frames are not told apart: each one is frame 1.
ReaderCapRead ==
    /\ readerPc = "capread"
    /\ \E ret \in BOOLEAN :
        /\ ret => (~capReleased /\ (env.endless \/ env.frames > 0))
        /\ IF ret
           THEN /\ frame' = DeviceFrame(capReads)
                /\ capReads' = IF env.endless THEN capReads ELSE capReads + 1
                /\ readerPc' = "empty"
                /\ env' = [env EXCEPT !.frames = Spend(@)]
                /\ UNCHANGED stopped
           ELSE /\ stopped' = TRUE
                /\ readerPc' = "exit"
                /\ UNCHANGED <<frame, capReads, env>>
    /\ UNCHANGED <<q, capReleased, published, relPc>>
    /\ UNCHANGED <<trackVars, pcs, offerVars, pcVars, shutVars>>

\* A producer that appends to an unbounded queue without making room first.
ReaderAppend ==
    /\ readerPc = "empty"
    /\ q' = Append(q, frame)
    /\ published' = frame
    /\ readerPc' = "while"
    /\ UNCHANGED <<stopped, capReleased, frame, capReads, relPc>>
    /\ UNCHANGED <<trackVars, pcs, offerVars, pcVars, shutVars>>
    /\ UNCHANGED env

\* `if not self.q.empty():`
ReaderEmpty ==
    /\ readerPc = "empty"
    /\ readerPc' = IF q # <<>> THEN "drop" ELSE "put"
    /\ UNCHANGED <<q, stopped, capReleased, frame, capReads, published, relPc>>
    /\ UNCHANGED <<trackVars, pcs, offerVars, pcVars, shutVars>>
    /\ UNCHANGED env

\* `try: self.q.get_nowait() except queue.Empty: pass`
ReaderDrop ==
    /\ readerPc = "drop"
    /\ q' = GetNowait(q)
    /\ readerPc' = "put"
    /\ UNCHANGED <<stopped, capReleased, frame, capReads, published, relPc>>
    /\ UNCHANGED <<trackVars, pcs, offerVars, pcVars, shutVars>>
    /\ UNCHANGED env

\* A put that counts the frame as published and loses it.
ReaderPutDiscards ==
    /\ readerPc = "put"
    /\ published' = frame
    /\ readerPc' = "while"
    /\ UNCHANGED <<q, stopped, capReleased, frame, capReads, relPc>>
    /\ UNCHANGED <<trackVars, pcs, offerVars, pcVars, shutVars>>
    /\ UNCHANGED env

\* `self.q.put(frame)`: a blocking put, which waits while the queue is full.
ReaderPut ==
    /\ readerPc = "put"
    /\ Len(q) < QMaxSize
    /\ q' = Append(q, frame)
    /\ published' = frame
    /\ readerPc' = "while"
    /\ UNCHANGED <<stopped, capReleased, frame, capReads, relPc>>
    /\ UNCHANGED <<trackVars, pcs, offerVars, pcVars, shutVars>>
    /\ UNCHANGED env

\* ------------------------------------------- CustomVideoCapture.release

\* `self.stopped = True`
ReleaseStop ==
    /\ relPc = "stop"
    /\ stopped' = TRUE
    /\ relPc' = "cap"
    /\ UNCHANGED <<q, capReleased, readerPc, frame, capReads, published>>
    /\ UNCHANGED <<trackVars, pcs, offerVars, pcVars, shutVars>>
    /\ UNCHANGED env

\* `self.cap.release()`, then `if self.t.is_alive():`, which skips the join of a
\* thread that has already left _reader.
ReleaseCap ==
    /\ relPc = "cap"
    /\ capReleased' = TRUE
    /\ IF readerPc # "exit"
       THEN relPc' = "join" /\ UNCHANGED shutPc
       ELSE relPc' = "done" /\ shutPc' = "done"
    /\ UNCHANGED <<q, stopped, readerPc, frame, capReads, published>>
    /\ UNCHANGED <<trackVars, pcs, offerVars, pcVars, shutClose>>
    /\ UNCHANGED env

\* `self.t.join(timeout=1.0)` returns when the thread has exited or when the second
\* has passed, whichever comes first; release() and on_shutdown then return.
ReleaseJoin ==
    /\ relPc = "join"
    /\ relPc' = "done"
    /\ shutPc' = "done"
    /\ UNCHANGED <<q, stopped, capReleased, readerPc, frame, capReads, published>>
    /\ UNCHANGED <<trackVars, pcs, offerVars, pcVars, shutClose>>
    /\ UNCHANGED env

\* release() is a public method of CustomVideoCapture: a caller calls it again once
\* a call of it has returned.
ReleaseAgain ==
    /\ relPc = "done"
    /\ relPc' = "stop"
    /\ UNCHANGED <<q, stopped, capReleased, readerPc, frame, capReads, published>>
    /\ UNCHANGED <<trackVars, pcs, offerVars, pcVars, shutVars>>
    /\ UNCHANGED env

\* ------------------------------------------------------------ VideoTrack.recv

\* What queue.Queue.get() leaves in the queue: it removes the item it returns.
QueueGet(s) == Tail(s)

\* recv() is called (by the sender of the track's peer connection):
\* `if not self.running: raise`, else `await self.next_timestamp()`.
RecvCall(p) ==
    /\ LoopFree
    /\ p \in Created
    /\ recvPc[p] = "idle"
    /\ env.endless \/ env.recvs > 0
    /\ env' = [env EXCEPT !.recvs = Spend(@)]
    /\ IF running[p]
       THEN recvPc' = [recvPc EXCEPT ![p] = "ts"] /\ UNCHANGED recvResult
       ELSE recvResult' = [recvResult EXCEPT ![p] = "raised"] /\ UNCHANGED recvPc
    /\ UNCHANGED <<running, callPub, got>>
    /\ UNCHANGED <<capVars, pcs, offerVars, pcVars, shutVars>>

\* The rest of recv() once video_capture.read() has returned f:
\* `if frame is None: self.running = False; raise`, else convert, stamp and return.
RecvFinish(p, f) ==
    /\ recvPc' = [recvPc EXCEPT ![p] = "idle"]
    /\ IF f = None
       THEN /\ running' = [running EXCEPT ![p] = FALSE]
            /\ recvResult' = [recvResult EXCEPT ![p] = "raised"]
            /\ UNCHANGED got
       ELSE /\ got' = [got EXCEPT ![p] = f]
            /\ recvResult' = [recvResult EXCEPT ![p] = "frame"]
            /\ UNCHANGED running

\* next_timestamp() has returned and recv() calls `self.video_capture.read()`, that
\* is `self.q.get()`: with a frame queued it returns it at once, on an empty queue it
\* blocks the calling (event-loop) thread.
RecvRead(p) ==
    /\ LoopFree
    /\ recvPc[p] = "ts"
    /\ callPub' = [callPub EXCEPT ![p] = published]
    /\ IF q # <<>>
       THEN /\ q' = QueueGet(q)
            /\ RecvFinish(p, Head(q))
       ELSE /\ recvPc' = [recvPc EXCEPT ![p] = "get"]
            /\ UNCHANGED <<q, running, got, recvResult>>
    /\ UNCHANGED <<stopped, capReleased, readerPc, frame, capReads, published, relPc>>
    /\ UNCHANGED <<pcs, offerVars, pcVars, shutVars>>
    /\ UNCHANGED env

\* The blocked `self.q.get()` returns once _reader has put a frame.
RecvWake(p) ==
    /\ recvPc[p] = "get"
    /\ q # <<>>
    /\ q' = QueueGet(q)
    /\ RecvFinish(p, Head(q))
    /\ UNCHANGED callPub
    /\ UNCHANGED <<stopped, capReleased, readerPc, frame, capReads, published, relPc>>
    /\ UNCHANGED <<pcs, offerVars, pcVars, shutVars>>
    /\ UNCHANGED env

\* ---------------------------------------------------------- WebRTCServer.offer

\* A description built from params["sdp"] alone.
ParamsPresentSdpOnly(b) == "sdp" \in b.keys

\* `RTCSessionDescription(sdp=params["sdp"], type=params["type"])` evaluates without
\* a KeyError.
ParamsPresent(b) == "sdp" \in b.keys /\ "type" \in b.keys

\* A constructor that hands out one and the same object.
NewPcReused == NoPc + 1

\* `RTCPeerConnection()` constructs a new object, distinct from all earlier ones.
NewPc == nextPc

\* The handler of the except branch: `return web.Response(status=500, ...)`.
OfferFail(r) ==
    /\ offerStatus' = [offerStatus EXCEPT ![r] = 500]
    /\ offerPc' = [offerPc EXCEPT ![r] = "done"]
    /\ offerBody' = [offerBody EXCEPT ![r] = NoRequest]

\* A request arrives.  `if request.method == "OPTIONS": return web.Response(status=200)`,
\* else `params = await request.json()`.
OfferStart(r) ==
    /\ LoopFree
    /\ shutPc = "idle"
    /\ offerPc[r] = "idle"
    /\ r > 1 => offerPc[r - 1] # "idle"
    /\ env.offers > 0
    /\ env' = [env EXCEPT !.offers = @ - 1]
    /\ \E b \in Requests :
        IF b.method = "OPTIONS"
        THEN /\ offerStatus' = [offerStatus EXCEPT ![r] = 200]
             /\ offerPc' = [offerPc EXCEPT ![r] = "done"]
             /\ UNCHANGED offerBody
        ELSE /\ offerBody' = [offerBody EXCEPT ![r] = b]
             /\ offerPc' = [offerPc EXCEPT ![r] = "json"]
             /\ UNCHANGED offerStatus
    /\ UNCHANGED <<offerConn, nextPc>>
    /\ UNCHANGED <<capVars, trackVars, pcs, pcVars, shutVars>>

\* request.json() has returned.  Lines 115-140: build the RTCSessionDescription
\* (KeyError on a missing key), create the VideoTrack and the RTCPeerConnection,
\* `self.pcs.add(pc)`, addTrack, register both handlers, and suspend in
\* `await pc.setRemoteDescription(offer)`.
OfferParse(r) ==
    /\ LoopFree
    /\ offerPc[r] = "json"
    /\ IF ParamsPresent(offerBody[r])
       THEN /\ offerConn' = [offerConn EXCEPT ![r] = NewPc]
            /\ pcs' = pcs \cup {NewPc}
            /\ nextPc' = nextPc + 1
            /\ offerPc' = [offerPc EXCEPT ![r] = "setRemote"]
            /\ UNCHANGED <<offerStatus, offerBody>>
       ELSE /\ OfferFail(r)
            /\ UNCHANGED <<offerConn, pcs, nextPc>>
    /\ UNCHANGED <<capVars, trackVars, pcVars, shutVars>>
    /\ UNCHANGED env

\* The await the coroutine resumes into after each of its three negotiation awaits.
AfterAwait(at) ==
    CASE at = "setRemote" -> "createAnswer"
      [] at = "createAnswer" -> "setLocal"
      [] at = "setLocal" -> "done"

\* One of `await pc.setRemoteDescription(offer)`, `await pc.createAnswer()`,
\* `await pc.setLocalDescription(answer)` returns or raises; after the last one the
\* answer is returned with status 200, an exception gives the 500 response.
OfferAwait(r) ==
    /\ LoopFree
    /\ offerPc[r] \in {"setRemote", "createAnswer", "setLocal"}
    /\ \E ok \in BOOLEAN :
        IF ok
        THEN /\ offerPc' = [offerPc EXCEPT ![r] = AfterAwait(offerPc[r])]
             /\ offerStatus' = [offerStatus EXCEPT
                                  ![r] = IF offerPc[r] = "setLocal" THEN 200 ELSE @]
             /\ offerBody' = [offerBody EXCEPT
                                ![r] = IF offerPc[r] = "setLocal" THEN NoRequest ELSE @]
        ELSE OfferFail(r)
    /\ UNCHANGED <<offerConn, nextPc>>
    /\ UNCHANGED <<capVars, trackVars, pcs, pcVars, shutVars>>
    /\ UNCHANGED env

\* ------------------------------------------------- the state-change handlers

StateOf(p, k) == IF k = "conn" THEN connState[p] ELSE iceState[p]

\* The engine changes pc.connectionState (k = "conn") or pc.iceConnectionState
\* (k = "ice") and emits the event, which schedules the handler registered with
\* @pc.on(...).  A closed connection changes state no more; the model keeps one
\* handler run per connection and kind at a time, so a change is reported once the
\* previous run of that handler has ended.
EngineEvent(p, k, s) ==
    /\ LoopFree
    /\ p \in Created
    /\ env.events > 0
    /\ env' = [env EXCEPT !.events = @ - 1]
    /\ StateOf(p, k) # "closed"
    /\ s # StateOf(p, k)
    /\ cb[p][k] \notin {"sched", "closing"}
    /\ IF k = "conn"
       THEN connState' = [connState EXCEPT ![p] = s] /\ UNCHANGED iceState
       ELSE iceState' = [iceState EXCEPT ![p] = s] /\ UNCHANGED connState
    /\ cb' = [cb EXCEPT ![p][k] = "sched"]
    /\ UNCHANGED closeCalls
    /\ UNCHANGED <<capVars, trackVars, pcs, offerVars, shutVars>>

\* on_connectionstatechange / on_iceconnectionstatechange starts:
\* `if pc.connectionState in ["failed", "disconnected", "closed"]: await pc.close()`.
CbRun(p, k) ==
    /\ LoopFree
    /\ cb[p][k] = "sched"
    /\ IF StateOf(p, k) \in Terminal
       THEN /\ cb' = [cb EXCEPT ![p][k] = "closing"]
            /\ closeCalls' = [closeCalls EXCEPT ![p] = @ + 1]
       ELSE /\ cb' = [cb EXCEPT ![p][k] = "idle"]
            /\ UNCHANGED closeCalls
    /\ UNCHANGED <<connState, iceState>>
    /\ UNCHANGED <<capVars, trackVars, pcs, offerVars, shutVars>>
    /\ UNCHANGED env

\* `await pc.close()` returns, the transport being closed, and the handler goes on
\* to `self.pcs.discard(pc)`.
CbCloseReturn(p, k) ==
    /\ LoopFree
    /\ cb[p][k] = "closing"
    /\ connState' = [connState EXCEPT ![p] = "closed"]
    /\ iceState' = [iceState EXCEPT ![p] = "closed"]
    /\ pcs' = pcs \ {p}
    /\ cb' = [cb EXCEPT ![p][k] = "done"]
    /\ UNCHANGED closeCalls
    /\ UNCHANGED <<capVars, trackVars, offerVars, shutVars>>
    /\ UNCHANGED env

\* `await pc.close()` raises: the exception leaves the handler before the discard.
CbCloseRaise(p, k) ==
    /\ LoopFree
    /\ cb[p][k] = "closing"
    /\ cb' = [cb EXCEPT ![p][k] = "raised"]
    /\ UNCHANGED <<connState, iceState, closeCalls>>
    /\ UNCHANGED <<capVars, trackVars, pcs, offerVars, shutVars>>
    /\ UNCHANGED env

\* ---------------------------------------------------- WebRTCServer.on_shutdown

\* `coros = [pc.close() for pc in self.pcs]` and `await asyncio.gather(*coros)`:
\* one close per connection registered now, all started together.  With an empty
\* registry gather returns a future that is already done, the await does not
\* suspend, and on_shutdown goes on to `self.pcs.clear()` and the call of release().
OnShutdown ==
    /\ LoopFree
    /\ shutPc = "idle"
    /\ shutClose' = [p \in PcIds |-> IF p \in pcs THEN "pending" ELSE "none"]
    /\ closeCalls' = [p \in PcIds |-> IF p \in pcs THEN closeCalls[p] + 1
                                                  ELSE closeCalls[p]]
    /\ IF pcs # {}
       THEN shutPc' = "gather" /\ UNCHANGED relPc
       ELSE shutPc' = "release" /\ relPc' = "stop"
    /\ UNCHANGED <<connState, iceState, cb>>
    /\ UNCHANGED <<q, stopped, capReleased, readerPc, frame, capReads, published>>
    /\ UNCHANGED <<trackVars, pcs, offerVars>>
    /\ UNCHANGED env

\* One of the gathered pc.close() coroutines returns.
ShutCloseReturn(p) ==
    /\ LoopFree
    /\ shutClose[p] = "pending"
    /\ shutClose' = [shutClose EXCEPT ![p] = "ok"]
    /\ connState' = [connState EXCEPT ![p] = "closed"]
    /\ iceState' = [iceState EXCEPT ![p] = "closed"]
    /\ UNCHANGED <<shutPc, cb, closeCalls>>
    /\ UNCHANGED <<capVars, trackVars, pcs, offerVars>>
    /\ UNCHANGED env

\* One of the gathered pc.close() coroutines raises: gather (return_exceptions is
\* not set) passes the first exception to on_shutdown, which ends there; the other
\* closes keep running.
ShutCloseRaise(p) ==
    /\ LoopFree
    /\ shutClose[p] = "pending"
    /\ shutClose' = [shutClose EXCEPT ![p] = "err"]
    /\ shutPc' = IF shutPc = "gather" THEN "raised" ELSE shutPc
    /\ UNCHANGED <<pcVars>>
    /\ UNCHANGED <<capVars, trackVars, pcs, offerVars>>
    /\ UNCHANGED env

\* A gather that returns as soon as one of the closes has returned.
GatherFirstCompleted == \E p \in PcIds : shutClose[p] = "ok"

\* `await asyncio.gather(*coros)` returns: each of the gathered closes has returned.
GatherDone == \A p \in PcIds : shutClose[p] \in {"none", "ok"}

\* gather returns, every close having returned: `self.pcs.clear()` and the call of
\* `self.video_capture.release()`.
ShutdownGathered ==
    /\ LoopFree
    /\ shutPc = "gather"
    /\ GatherDone
    /\ pcs' = {}
    /\ shutPc' = "release"
    /\ relPc' = "stop"
    /\ UNCHANGED <<q, stopped, capReleased, readerPc, frame, capReads, published>>
    /\ UNCHANGED <<trackVars, offerVars, pcVars, shutClose>>
    /\ UNCHANGED env

\* --------------------------------------------------------- specifications

\* The _reader thread.
ReaderNext ==
    \/ ReaderWhile
    \/ ReaderCapRead
    \/ ReaderEmpty
    \/ ReaderDrop
    \/ ReaderPut

\* release(), running on the loop thread inside on_shutdown.
ReleaseNext ==
    \/ ReleaseStop
    \/ ReleaseCap
    \/ ReleaseJoin

\* The recv() coroutines.
RecvNext ==
    \/ \E p \in PcIds : RecvCall(p)
    \/ \E p \in PcIds : RecvRead(p)
    \/ \E p \in PcIds : RecvWake(p)

\* The offer() coroutines.
OfferNext ==
    \/ \E r \in Req : OfferStart(r)
    \/ \E r \in Req : OfferParse(r)
    \/ \E r \in Req : OfferAwait(r)

\* The engine's state changes and the two handlers.
HandlerNext ==
    \/ \E p \in PcIds, k \in Kinds, s \in EngineStates : EngineEvent(p, k, s)
    \/ \E p \in PcIds, k \in Kinds : CbRun(p, k)
    \/ \E p \in PcIds, k \in Kinds : CbCloseReturn(p, k)
    \/ \E p \in PcIds, k \in Kinds : CbCloseRaise(p, k)

\* on_shutdown up to its call of release().
ShutdownNext ==
    \/ OnShutdown
    \/ \E p \in PcIds : ShutCloseReturn(p)
    \/ \E p \in PcIds : ShutCloseRaise(p)
    \/ ShutdownGathered

\* The whole program.
Next ==
    \/ ReaderNext
    \/ ReleaseNext
    \/ RecvNext
    \/ OfferNext
    \/ HandlerNext
    \/ ShutdownNext

\* The whole program, serving SpecReq requests.
Init == Start /\ env = [offers |-> SpecReq, events |-> MaxEvents, recvs |-> MaxRecv,
                        frames |-> MaxFrames, endless |-> FALSE]
Spec == Init /\ [][Next]_vars

\* The session side with NumReq requests: every coroutine of the loop thread except
\* recv(), while the _reader thread takes no step.  recv() and _reader write none of
\* the variables the session coroutines read except to take the loop thread away
\* (LoopFree) and to let release() skip its join, so every run of the session
\* coroutines within the whole program is a run of SessionNext.
SessionNext ==
    \/ OfferNext
    \/ HandlerNext
    \/ ShutdownNext
    \/ ReleaseNext

SessionInit == Start /\ env = [offers |-> NumReq, events |-> MaxEvents, recvs |-> 0,
                               frames |-> 0, endless |-> FALSE]
SpecSessions == SessionInit /\ [][SessionNext]_vars

\* The capture side with NumReq viewers: the _reader thread, the recv() coroutines,
\* the offers up to the point where the track exists, and the shutdown that releases
\* the capture.  The rest of offer(), the handlers and a failing close write nothing
\* the capture side reads, so every run of the capture side within the whole program
\* is a run of CaptureNext.
CaptureNext ==
    \/ ReaderNext
    \/ RecvNext
    \/ \E r \in Req : OfferStart(r)
    \/ \E r \in Req : OfferParse(r)
    \/ OnShutdown
    \/ \E p \in PcIds : ShutCloseReturn(p)
    \/ ShutdownGathered
    \/ ReleaseNext

CaptureInit == Start /\ env = [offers |-> NumReq, events |-> 0, recvs |-> MaxRecv,
                               frames |-> MaxFrames, endless |-> FALSE]
SpecCapture == CaptureInit /\ [][CaptureNext]_vars

\* The capture side under the scheduling the program has: the operating system keeps
\* running the _reader thread, and the event loop keeps running its ready coroutines.
FairCapture == SpecCapture /\ WF_vars(ReaderNext) /\ WF_vars(CaptureNext)

\* The capture side together with the state-change handlers whose close returns: a
\* track that reads next to the callbacks of the sessions, the offers and the
\* shutdown, with one state change and one recv().  Every step of it is a step of
\* Next, so every state it reaches is a state of the whole program.
BlockingNext ==
    \/ CaptureNext
    \/ \E p \in PcIds, k \in Kinds, s \in EngineStates : EngineEvent(p, k, s)
    \/ \E p \in PcIds, k \in Kinds : CbRun(p, k)
    \/ \E p \in PcIds, k \in Kinds : CbCloseReturn(p, k)

BlockingInit == Start /\ env = [offers |-> NumReq, events |-> 1, recvs |-> 1,
                                frames |-> MaxFrames, endless |-> FALSE]
SpecBlocking == BlockingInit /\ [][BlockingNext]_vars

\* NumReq viewers of a device that streams without end, each viewer's sender calling
\* recv() again and again: the _reader thread, the recv() coroutines, and the offers
\* up to the point where the track exists.
ViewersNext ==
    \/ ReaderNext
    \/ RecvNext
    \/ \E r \in Req : OfferStart(r)
    \/ \E r \in Req : OfferParse(r)

ViewersInit == Start /\ env = [offers |-> NumReq, events |-> 0, recvs |-> 0,
                               frames |-> 0, endless |-> TRUE]
SpecViewers == ViewersInit /\ [][ViewersNext]_vars

\* The viewers under the scheduling the program has.  The operating system keeps
\* running the _reader thread.  The event loop runs its ready callbacks in the order
\* in which they became ready, so a recv() that is ready to call read() is run after
\* finitely many other callbacks although the loop is blocked in between; and every
\* q.put() notifies the thread blocked in q.get().  Both are strong fairness of the
\* read steps of each track.
FairViewers ==
    /\ SpecViewers
    /\ WF_vars(ReaderNext)
    /\ \A p \in PcIds : SF_vars(RecvRead(p)) /\ SF_vars(RecvWake(p))

\* The capture side with a caller that calls release() more than once.
ReleaseCallerNext ==
    \/ CaptureNext
    \/ ReleaseAgain

SpecRelease == CaptureInit /\ [][ReleaseCallerNext]_vars

\* ------------------------------------------------------------------ claims

\* A recv() of track p has completed a video_capture.read() that was called after
\* some frame had been published.
ReadDone(p) == recvPc[p] # "get" /\ recvResult[p] = "frame" /\ callPub[p] >= 1

\* C1 (freshness): a read() called after frame k was published and before frame
\* k+1 is published returns frame k.
C1_Freshness == \A p \in PcIds : ReadDone(p) => got[p] = callPub[p]

\* C2 (shared, non-destructive reads): two tracks that both call read() between the
\* same two consecutive publishes obtain the same frame.
C2_SharedLatestFrame ==
    \A p1, p2 \in PcIds :
        (p1 # p2 /\ ReadDone(p1) /\ ReadDone(p2) /\ callPub[p1] = callPub[p2])
            => got[p1] = got[p2]

\* C3 (idempotent teardown): while no shutdown runs, the terminal signals of a
\* connection lead to at most one pc.close() for it.
C3_SingleTeardown == \A p \in PcIds : shutPc = "idle" => closeCalls[p] <= 1

\* C4 (terminal propagation): a recv() waiting in read() on a source that is
\* terminal does not wait forever (the claim: it ends by raising; the property asks
\* only that it ends).
C4_TerminalPropagation ==
    \A p \in PcIds : (stopped /\ recvPc[p] = "get") ~> (recvPc[p] # "get")

\* C5 (bounded shutdown): when on_shutdown has ended, by returning or by raising,
\* the registry is empty and the capture has been told to stop and been released.
C5_BoundedShutdown ==
    shutPc \in {"done", "raised"} => (pcs = {} /\ stopped /\ capReleased)

\* C6 (failed offer leaves no session): when offer() returns the 500 response for a
\* request it created a peer connection for, that connection is out of the registry
\* and closed.
C6_FailedOfferUnregistered ==
    [][\A r \in Req :
          (offerPc[r] # "done" /\ offerPc'[r] = "done" /\ offerStatus'[r] = 500
              /\ offerConn'[r] # NoPc)
            => (offerConn'[r] \notin pcs' /\ connState'[offerConn'[r]] = "closed")]_vars

\* A POST whose body lacks "sdp" or "type".
Malformed(b) == b.method = "POST" /\ ~(Keys \subseteq b.keys)

\* C7 (malformed offer rejection): every step offer() takes for a malformed request
\* leaves the registry as it is, and the request ends with the 500 response and
\* without a peer connection.
C7_MalformedOfferRejected ==
    [][\A r \in Req :
          (offerPc'[r] # offerPc[r]
              /\ (Malformed(offerBody[r]) \/ Malformed(offerBody'[r])))
            => /\ pcs' = pcs
               /\ offerPc'[r] \in {"json", "done"}
               /\ offerPc'[r] = "done"
                    => (offerStatus'[r] = 500 /\ offerConn'[r] = NoPc)]_vars

\* A malformed request has been answered with 500 while the registry held a session.
C7_Witness ==
    \E r \in Req :
        offerPc[r] = "done" /\ offerStatus[r] = 500 /\ offerConn[r] = NoPc /\ pcs # {}

\* C8 (no-block producer): whenever _reader is about to execute q.put(frame) the
\* queue has room, so the put returns without waiting for a reader.
C8_PutNeverBlocks == readerPc = "put" => Len(q) < QMaxSize

\* _reader is about to put frame 2 after having dropped frame 1, which no track ever
\* read, while a recv() is on its way to read().
C8_Witness ==
    /\ readerPc = "put"
    /\ frame = 2
    /\ published = 1
    /\ q = <<>>
    /\ \A p \in PcIds : got[p] = None
    /\ \E p \in PcIds : recvPc[p] = "ts"

\* C9 (registry invariant): a registered peer connection has not reached a terminal
\* state on either channel.
C9_RegisteredNotTerminal ==
    \A p \in pcs : connState[p] \notin Terminal /\ iceState[p] \notin Terminal

\* The peer connections the offers have created, and those a handler has closed and
\* discarded.
OfferConns == {offerConn[r] : r \in {x \in Req : offerConn[x] # NoPc}}
TornDown(p) == \E k \in Kinds : cb[p][k] = "done"

\* Until on_shutdown clears the registry, it holds one entry per offer that created a
\* connection, each a different one, minus those torn down.
RegistryExact ==
    shutPc \in {"idle", "gather", "raised"} =>
        /\ Cardinality(OfferConns) = Cardinality({r \in Req : offerConn[r] # NoPc})
        /\ pcs = {p \in OfferConns : ~TornDown(p)}

\* C10 (registry integrity): N offers yield N distinct entries, and the teardown of
\* one session removes its entry only and changes no other session's state.
C10_RegistryIntegrity ==
    [][/\ RegistryExact'
       /\ \A p \in PcIds, k \in Kinds :
            (cb[p][k] = "closing" /\ cb'[p][k] = "done") =>
                /\ pcs' = pcs \ {p}
                /\ \A o \in PcIds \ {p} :
                     connState'[o] = connState[o] /\ iceState'[o] = iceState[o]]_vars

\* Two offers have been answered; the session of one has been torn down, that of the
\* other is still registered.
C10_Witness ==
    \E r1, r2 \in Req :
        /\ offerStatus[r1] = 200 /\ offerStatus[r2] = 200
        /\ offerConn[r1] # NoPc /\ offerConn[r2] # NoPc
        /\ offerConn[r1] # offerConn[r2]
        /\ TornDown(offerConn[r1])
        /\ pcs = {offerConn[r2]}

\* C11 (release is idempotent): a call of release() made after the device handle
\* has been released does not execute self.cap.release() again and does not wait
\* for the thread again.
C11_ReleaseIdempotent ==
    [][~(capReleased /\ relPc = "cap" /\ relPc' \in {"join", "done"})]_vars

\* C12 (ordering inside release): the device handle is released only after the wait
\* for the acquisition loop, so release() never waits for the thread with the handle
\* already released, and _reader is about to read a released handle only after that
\* wait is over.
C12_ReleaseAfterWait ==
    /\ relPc = "join" => ~capReleased
    /\ (readerPc = "capread" /\ capReleased) => relPc = "done"

\* C13 (shutdown ordering): release() of the capture is called, and the device handle
\* released, only when each close that on_shutdown started for the connections
\* registered at its start has returned; none of them is still pending.
C13_ReleaseAfterCloses ==
    (relPc # "idle" \/ capReleased) =>
        \A p \in PcIds : shutClose[p] \in {"none", "ok"}

\* on_shutdown found every connection registered, closed them all, and has released
\* the capture.
C13_Witness ==
    /\ relPc = "done"
    /\ capReleased
    /\ \A p \in PcIds : shutClose[p] = "ok"

\* C14 (atomic drain): every peer connection that on_shutdown's clear() removes from
\* the registry has been closed, also one that an offer() registered while
\* on_shutdown was suspended in its gather.
C14_DrainedAreClosed ==
    [][(shutPc # "release" /\ shutPc' = "release")
          => \A p \in pcs : connState[p] = "closed"]_vars

\* C15 (errors in the state-change callbacks): a handler that went on to close the
\* transport after a terminal state ends without an exception leaving it, and with
\* the peer connection removed from the registry, also when the close fails.
C15_CallbackErrorsContained ==
    \A p \in PcIds, k \in Kinds :
        cb[p][k] \in {"done", "raised"} => (cb[p][k] # "raised" /\ p \notin pcs)

\* C16 (teardown releases the frame view): once a handler has closed and discarded a
\* session after a terminal signal, the session's VideoTrack is stopped (running is
\* False), so that a later recv() on it raises instead of reading the capture.
C16_TeardownStopsTrack == \A p \in PcIds : TornDown(p) => ~running[p]

\* C17 (single-slot invariant): in every reachable state the queue holds at most one
\* frame, and a frame it holds is the one published last.
C17_SingleSlot ==
    /\ Len(q) <= 1
    /\ q # <<>> => Head(q) = published

\* Frame 2 is in the slot after a track has read frame 1, while another recv() is on
\* its way to read().
C17_Witness ==
    /\ q = <<2>>
    /\ published = 2
    /\ \E p \in PcIds : got[p] = 1
    /\ \E p \in PcIds : recvPc[p] = "ts"

C20_WaitingReadSuspendsOnlyCaller ==
    \A p \in PcIds :
        recvPc[p] = "get" =>
            /\ \A o \in PcIds \ {p}, k \in Kinds :
                 /\ cb[o][k] = "sched" => ENABLED CbRun(o, k)
                 /\ cb[o][k] = "closing" => ENABLED CbCloseReturn(o, k)
            /\ \A r \in Req : offerPc[r] = "json" => ENABLED OfferParse(r)
            /\ shutPc = "idle" => ENABLED OnShutdown
====
